---- MODULE Spec2Model ----
(***************************************************************************)
(* react-multi-captcha: the two script loaders (googleLoader.ts,           *)
(* cloudflareLoader.ts) and the Captcha component (Captcha.tsx).           *)
(*                                                                         *)
(* The two loaders are the same code up to the name of the global API      *)
(* object and the readiness test, so one set of loader variables is kept   *)
(* and `provider` says which loader they belong to.                        *)
(***************************************************************************)
EXTENDS Integers, Sequences, FiniteSets, TLC

VARIABLES
  provider,       \* which provider the loader / the component is for
  api,            \* window.grecaptcha / window.turnstile: "absent", "partial", "full"
  foreignScript,  \* a matching <script> tag put in the DOM by other code
  scriptLoaded,   \* googleLoader.ts:1  / cloudflareLoader.ts:1
  scriptLoading,  \* googleLoader.ts:2  / cloudflareLoader.ts:2
  loadPromise,    \* googleLoader.ts:3  / cloudflareLoader.ts:3 (Null or a promise id)
  loads,          \* one record per `new Promise(...)` of the loader: its script element,
                  \* its promise, its poll interval and its timeout
  calls,          \* the promise each load() call returned, in call order
  resets,         \* number of resetGoogleScript / resetCloudflareScript calls so far
  skip,           \* the component's skip prop
  mode,           \* the component's mode prop: "invisible" or "checkbox"
  throwing,       \* the method of the turnstile object that throws when it is
                  \* called, or "none"
  mounted,        \* the component instance is mounted
  mounts,         \* number of mounts so far; the instance mounted last is instance `mounts`
  onVerifyProp,   \* which onVerify function the parent passed in the latest render
  isInitialized,  \* Captcha.tsx:28, the state of the instance mounted last
  widgetIdRef,    \* Captcha.tsx:27, widgetIdRef.current of every instance
  widgets,        \* the widgets turnstile.render made; a widget's id is its index
  effects,        \* the runs of the effect (Captcha.tsx:80-211): the closure of each
                  \* (isMounted, the props and state it captured) and where its
                  \* initCaptcha stands
  handleResets,   \* one record per call of the handle's reset() (Captcha.tsx:34-77)
  uncaught,       \* an exception or rejection has escaped the component's
                  \* try/catch blocks
  themeProp,      \* the component's theme prop: the number of the theme passed
  sibling,        \* a second instance of the component, of the same provider:
                  \* the closure of its effect, up to the end of its wait for
                  \* the script
  handleExecutes, \* number of times the host called execute() on the handle
  executes,       \* number of grecaptcha.execute / turnstile.execute calls so far
  issued,         \* number of tokens Turnstile passed to a success callback so far
  verified        \* the onVerify invocations so far

loaderVars == <<provider, api, foreignScript, scriptLoaded, scriptLoading,
                loadPromise, loads, calls, resets>>

compVars == <<skip, mode, throwing, uncaught, themeProp, sibling, mounted, mounts, onVerifyProp, isInitialized,
              widgetIdRef, widgets, effects, handleResets, handleExecutes, executes,
              issued, verified>>

vars == <<provider, api, foreignScript, scriptLoaded, scriptLoading,
          loadPromise, loads, calls, resets,
          skip, mode, throwing, uncaught, themeProp, sibling, mounted, mounts, onVerifyProp, isInitialized,
          widgetIdRef, widgets, effects, handleResets, handleExecutes, executes,
          issued, verified>>

----------------------------------------------------------------------------
(* Bounds *)

MaxCalls == 3         \* load() calls in one behaviour
MaxResets == 1        \* loader resets in one behaviour
MaxHostOps == 2       \* what the host does to the component in one behaviour:
                      \* mounts, re-renders with a new onVerify, calls of reset()
MaxThemes == 2        \* themes the parent passes in one behaviour

----------------------------------------------------------------------------
(* Values *)

Null == 0         \* `null` for loadPromise; promise ids are 1..Len(loads)
Fresh == -1       \* a promise made by Promise.resolve(): a new, resolved object

Google == "google-v3"
Cloudflare == "cloudflare-turnstile"
Providers == {Google, Cloudflare}

\* The rejection values, `new Error(message)`; both are plain Error objects
\* that differ in their message only.
TimeoutError(p) ==
  [name |-> "Error",
   message |-> IF p = Google THEN "Google reCAPTCHA failed to load"
                             ELSE "Cloudflare Turnstile failed to load"]

FetchError(p) ==
  [name |-> "Error",
   message |-> IF p = Google THEN "Failed to load Google reCAPTCHA script"
                             ELSE "Failed to load Cloudflare Turnstile script"]

NoError == [name |-> "", message |-> ""]

\* (window as any).grecaptcha  /  (window as any).turnstile  is truthy
ApiPresent == api # "absent"

\* grecaptcha && grecaptcha.execute  /  turnstile
ApiReady == api = "full"

\* document.querySelector('script[src*=...]'): the loader never removes a
\* script element it appended, whatever became of the fetch.
ExistingScript ==
  foreignScript \/ \E i \in 1..Len(loads) : loads[i].script # "none"

\* number of script elements the loader appended to document.head
Appended(ls) == Cardinality({i \in 1..Len(ls) : ls[i].script # "none"})

----------------------------------------------------------------------------
(* load(): loadGoogleScript / loadCloudflareScript *)

\* the record `new Promise(executor)` leaves behind when the executor found
\* the API usable and resolved at once
ResolvedLoad ==
  [script |-> "none", promise |-> "resolved", error |-> NoError,
   poll |-> FALSE, timer |-> FALSE, orphaned |-> FALSE]

\* ... and when it created a script element and appended it
FetchingLoad ==
  [script |-> "fetching", promise |-> "pending", error |-> NoError,
   poll |-> FALSE, timer |-> FALSE, orphaned |-> FALSE]

\* Mutant: load() without the "currently loading" test (lines 12-15)
LoadOutcomeNoShare ==
  IF scriptLoaded /\ ApiPresent
  THEN [loaded |-> scriptLoaded, loading |-> scriptLoading,
        promise |-> loadPromise, loads |-> loads, ret |-> Fresh]
  ELSE IF ExistingScript /\ ApiPresent
  THEN [loaded |-> TRUE, loading |-> scriptLoading,
        promise |-> loadPromise, loads |-> loads, ret |-> Fresh]
  ELSE IF ApiReady
  THEN [loaded |-> TRUE, loading |-> FALSE,
        promise |-> Len(loads) + 1, loads |-> Append(loads, ResolvedLoad),
        ret |-> Len(loads) + 1]
  ELSE [loaded |-> scriptLoaded, loading |-> TRUE,
        promise |-> Len(loads) + 1, loads |-> Append(loads, FetchingLoad),
        ret |-> Len(loads) + 1]

\* Mutant: load() without the test for a script tag already in the DOM
\* (lines 17-25)
LoadOutcomeNoDomCheck ==
  IF scriptLoaded /\ ApiPresent
  THEN [loaded |-> scriptLoaded, loading |-> scriptLoading,
        promise |-> loadPromise, loads |-> loads, ret |-> Fresh]
  ELSE IF scriptLoading /\ loadPromise # Null
  THEN [loaded |-> scriptLoaded, loading |-> scriptLoading,
        promise |-> loadPromise, loads |-> loads, ret |-> loadPromise]
  ELSE IF ApiReady
  THEN [loaded |-> TRUE, loading |-> FALSE,
        promise |-> Len(loads) + 1, loads |-> Append(loads, ResolvedLoad),
        ret |-> Len(loads) + 1]
  ELSE [loaded |-> scriptLoaded, loading |-> TRUE,
        promise |-> Len(loads) + 1, loads |-> Append(loads, FetchingLoad),
        ret |-> Len(loads) + 1]

\* Mutant: load() that returns the promise it kept whether or not a load is
\* in progress (line 13 without scriptLoading)
LoadOutcomeKeptPromise ==
  IF scriptLoaded /\ ApiPresent
  THEN [loaded |-> scriptLoaded, loading |-> scriptLoading,
        promise |-> loadPromise, loads |-> loads, ret |-> Fresh]
  ELSE IF loadPromise # Null
  THEN [loaded |-> scriptLoaded, loading |-> scriptLoading,
        promise |-> loadPromise, loads |-> loads, ret |-> loadPromise]
  ELSE IF ExistingScript /\ ApiPresent
  THEN [loaded |-> TRUE, loading |-> scriptLoading,
        promise |-> loadPromise, loads |-> loads, ret |-> Fresh]
  ELSE IF ApiReady
  THEN [loaded |-> TRUE, loading |-> FALSE,
        promise |-> Len(loads) + 1, loads |-> Append(loads, ResolvedLoad),
        ret |-> Len(loads) + 1]
  ELSE [loaded |-> scriptLoaded, loading |-> TRUE,
        promise |-> Len(loads) + 1, loads |-> Append(loads, FetchingLoad),
        ret |-> Len(loads) + 1]

\* What one call of load() does to the loader and what it returns.
LoadOutcome ==
  IF scriptLoaded /\ ApiPresent
  THEN [loaded |-> scriptLoaded, loading |-> scriptLoading,
        promise |-> loadPromise, loads |-> loads, ret |-> Fresh]
  ELSE IF scriptLoading /\ loadPromise # Null
  THEN [loaded |-> scriptLoaded, loading |-> scriptLoading,
        promise |-> loadPromise, loads |-> loads, ret |-> loadPromise]
  ELSE IF ExistingScript /\ ApiPresent
  THEN [loaded |-> TRUE, loading |-> scriptLoading,
        promise |-> loadPromise, loads |-> loads, ret |-> Fresh]
  ELSE IF ApiReady
  THEN [loaded |-> TRUE, loading |-> FALSE,
        promise |-> Len(loads) + 1, loads |-> Append(loads, ResolvedLoad),
        ret |-> Len(loads) + 1]
  ELSE [loaded |-> scriptLoaded, loading |-> TRUE,
        promise |-> Len(loads) + 1, loads |-> Append(loads, FetchingLoad),
        ret |-> Len(loads) + 1]

\* the loader's part of a step that calls load()
CallLoad ==
  /\ Len(calls) < MaxCalls
  /\ scriptLoaded' = LoadOutcome.loaded
  /\ scriptLoading' = LoadOutcome.loading
  /\ loadPromise' = LoadOutcome.promise
  /\ loads' = LoadOutcome.loads
  /\ calls' = Append(calls, LoadOutcome.ret)
  /\ UNCHANGED <<provider, api, foreignScript, resets>>

\* a caller outside the component calls load()
LoadScript == CallLoad

\* resolve() / reject(e) of the promise of loads[i]: a settled promise stays
\* as it is
Settle(l, how, e) ==
  IF l.promise = "pending" THEN [l EXCEPT !.promise = how, !.error = e] ELSE l

\* script.onload
ScriptOnload(i) ==
  /\ loads[i].script = "fetching"
  /\ scriptLoaded' = TRUE
  /\ scriptLoading' = FALSE
  /\ loads' = [loads EXCEPT ![i] = [@ EXCEPT !.script = "loaded",
                                             !.poll = TRUE, !.timer = TRUE]]
  /\ UNCHANGED <<provider, api, foreignScript, loadPromise, calls, resets>>

\* Mutant: script.onerror that rejects but leaves the loading flag and the
\* pending promise as they were
ScriptOnerrorKeepsState(i) ==
  /\ loads[i].script = "fetching"
  /\ loads' = [loads EXCEPT ![i] =
                 Settle([@ EXCEPT !.script = "error"], "rejected", FetchError(provider))]
  /\ UNCHANGED <<provider, api, foreignScript, scriptLoaded, scriptLoading,
                 loadPromise, calls, resets>>

\* script.onerror
ScriptOnerror(i) ==
  /\ loads[i].script = "fetching"
  /\ scriptLoading' = FALSE
  /\ loadPromise' = Null
  /\ loads' = [loads EXCEPT ![i] =
                 Settle([@ EXCEPT !.script = "error"], "rejected", FetchError(provider))]
  /\ UNCHANGED <<provider, api, foreignScript, scriptLoaded, calls, resets>>

\* a tick of the checkReady interval that finds the API ready (a tick that
\* does not find it ready changes nothing)
CheckReady(i) ==
  /\ loads[i].poll
  /\ ApiReady
  /\ loads' = [loads EXCEPT ![i] = Settle([@ EXCEPT !.poll = FALSE], "resolved", NoError)]
  /\ UNCHANGED <<provider, api, foreignScript, scriptLoaded, scriptLoading,
                 loadPromise, calls, resets>>

\* Mutant: a timeout that rejects with the fetch failure's error
LoadTimeoutFetchError(i) ==
  /\ loads[i].timer
  /\ loads' = [loads EXCEPT ![i] =
                 IF ApiPresent
                 THEN Settle([@ EXCEPT !.poll = FALSE, !.timer = FALSE], "resolved", NoError)
                 ELSE Settle([@ EXCEPT !.poll = FALSE, !.timer = FALSE],
                             "rejected", FetchError(provider))]
  /\ UNCHANGED <<provider, api, foreignScript, scriptLoaded, scriptLoading,
                 loadPromise, calls, resets>>

\* Mutant: a timeout that stops the poll and settles nothing
LoadTimeoutClearsOnly(i) ==
  /\ loads[i].timer
  /\ loads' = [loads EXCEPT ![i] = [@ EXCEPT !.poll = FALSE, !.timer = FALSE]]
  /\ UNCHANGED <<provider, api, foreignScript, scriptLoaded, scriptLoading,
                 loadPromise, calls, resets>>

\* the 10 s timeout
LoadTimeout(i) ==
  /\ loads[i].timer
  /\ loads' = [loads EXCEPT ![i] =
                 IF ApiPresent
                 THEN Settle([@ EXCEPT !.poll = FALSE, !.timer = FALSE], "resolved", NoError)
                 ELSE Settle([@ EXCEPT !.poll = FALSE, !.timer = FALSE],
                             "rejected", TimeoutError(provider))]
  /\ UNCHANGED <<provider, api, foreignScript, scriptLoaded, scriptLoading,
                 loadPromise, calls, resets>>

\* Mutant: a reset that also stops the poll and the timeout of the loads in
\* progress
ResetScriptCancels ==
  /\ resets < MaxResets
  /\ scriptLoaded' = FALSE
  /\ scriptLoading' = FALSE
  /\ loadPromise' = Null
  /\ resets' = resets + 1
  /\ loads' = [i \in 1..Len(loads) |->
                 IF loads[i].promise = "pending"
                 THEN [loads[i] EXCEPT !.orphaned = TRUE, !.poll = FALSE, !.timer = FALSE]
                 ELSE loads[i]]
  /\ UNCHANGED <<provider, api, foreignScript, calls>>

\* resetGoogleScript / resetCloudflareScript. `orphaned` remembers which
\* promises were pending when a reset discarded them.
ResetScript ==
  /\ resets < MaxResets
  /\ scriptLoaded' = FALSE
  /\ scriptLoading' = FALSE
  /\ loadPromise' = Null
  /\ resets' = resets + 1
  /\ loads' = [i \in 1..Len(loads) |->
                 IF loads[i].promise = "pending"
                 THEN [loads[i] EXCEPT !.orphaned = TRUE] ELSE loads[i]]
  /\ UNCHANGED <<provider, api, foreignScript, calls>>

\* The provider's script (ours or a foreign one) defines the global API
\* object. grecaptcha first exists without execute (api.js defines
\* grecaptcha.ready and fetches the rest); turnstile is there at once.
ApiAppears ==
  /\ api # "full"
  /\ api' \in IF provider = Google /\ api = "absent" THEN {"partial", "full"} ELSE {"full"}
  /\ UNCHANGED <<provider, foreignScript, scriptLoaded, scriptLoading,
                 loadPromise, loads, calls, resets>>

----------------------------------------------------------------------------
(* The Captcha component: closures, refs and React's rendering *)

\* the token initCaptcha passes in skip mode, and the n-th token of the
\* provider (of the n-th grecaptcha.execute call, or the n-th Turnstile passed
\* to a success callback)
SkippedToken == [kind |-> "skipped", id |-> 0]
ProviderToken(n) == [kind |-> "provider", id |-> n]

\* the closure of a new run of the effect: isMounted = true, the timer that
\* will call initCaptcha is pending
NewEffect(init, fn) ==
  [pc |-> "timer", isMounted |-> TRUE, capInit |-> init, capVerify |-> fn,
   inst |-> mounts, promise |-> Null, token |-> 0]

\* initCaptcha has returned (or its timer was cleared): only isMounted still
\* matters
Finished(e) ==
  [pc |-> "done", isMounted |-> e.isMounted, capInit |-> FALSE, capVerify |-> 0,
   inst |-> e.inst, promise |-> Null, token |-> 0]

\* `effects` holds the runs of the effect whose initCaptcha has not returned,
\* oldest first, and as its last element the latest run, returned or not.
\* Without(es, e): the runs es without the e-th
Without(es, e) == SubSeq(es, 1, e - 1) \o SubSeq(es, e + 1, Len(es))

\* the runs still in progress
InProgress(es) == SelectSeq(es, LAMBDA x : x.pc # "done")

\* initCaptcha of the e-th run returns
Return(e) ==
  IF e = Len(effects) THEN [effects EXCEPT ![e] = Finished(@)]
  ELSE Without(effects, e)

\* a call of the turnstile method m returns (TRUE) or throws (FALSE)
Returns(m) == throwing # m

\* the refs of the instance inst: widgetIdRef.current, and whether
\* widgetRef.current holds the container (React sets it when the <div> is
\* mounted and back to null when it is unmounted)
WidgetId(inst) == widgetIdRef[inst]
Container(inst) == mounted /\ inst = mounts /\ provider = Cloudflare /\ ~skip

\* Mutant: a cleanup without the turnstile.remove call
RemoveNeverCalled == FALSE

\* The cleanup function of the effect (lines 182-201) runs for the latest run
\* of the instance mounted last. It sets isMounted = false, clears the timer,
\* and calls turnstile.remove when there is a widget id and a turnstile
\* object; ok says whether that call returned or threw.
RemoveCalled == provider = Cloudflare /\ WidgetId(mounts) # Null /\ ApiPresent

CleanedUp(e) ==
  IF e.pc = "timer" THEN Finished([e EXCEPT !.isMounted = FALSE])
  ELSE [e EXCEPT !.isMounted = FALSE]

EffectsCleaned(es) == [es EXCEPT ![Len(es)] = CleanedUp(@)]

\* isMounted is read by the callbacks of the widgets the run rendered as
\* well; every widget belongs to the latest run or to one cleaned up before
WidgetsCleaned(ws, ok) ==
  [w \in 1..Len(ws) |->
     [ws[w] EXCEPT !.isMounted = FALSE,
                   !.live = IF RemoveCalled /\ ok /\ w = WidgetId(mounts)
                            THEN FALSE ELSE @]]

IdCleaned(ok) ==
  IF RemoveCalled /\ ok THEN [widgetIdRef EXCEPT ![mounts] = Null] ELSE widgetIdRef

\* the runs es after the dependencies of the effect changed: the cleanup of
\* the current run, then a new run
Rerun(es, init, fn) == Append(InProgress(EffectsCleaned(es)), NewEffect(init, fn))

\* setIsInitialized(v) by a closure of instance inst, and the render it
\* causes. React renders a state update after the synchronous code that made
\* it and long before any timer of the component or any answer of the
\* provider, so the update and its render are one step. Nothing is rendered
\* when that instance is unmounted or v is its current state; otherwise
\* isInitialized, a dependency of the effect, changed: the cleanup runs and
\* the effect runs again.
Rerenders(v, inst) == mounted /\ inst = mounts /\ v # isInitialized
InitializedAfterSet(v, inst) == IF Rerenders(v, inst) THEN v ELSE isInitialized
EffectsAfterSet(es, v, inst) ==
  IF Rerenders(v, inst) THEN Rerun(es, v, onVerifyProp) ELSE es
WidgetsAfterSet(ws, v, inst, ok) ==
  IF Rerenders(v, inst) THEN WidgetsCleaned(ws, ok) ELSE ws
IdAfterSet(v, inst, ok) ==
  IF Rerenders(v, inst) THEN IdCleaned(ok) ELSE widgetIdRef

\* onVerify(token), invoked through the function fn by a closure of instance
\* inst; live: that instance is mounted at this moment
Invoke(token, fn, inst) ==
  Append(verified, [token |-> token, fn |-> fn, inst |-> inst,
                    live |-> mounted /\ inst = mounts])

\* what the host has done to the component so far
HostOps ==
  mounts + (onVerifyProp - 1) + Len(handleResets) + handleExecutes
    + (IF sibling.pc = "none" THEN 0 ELSE 1)

----------------------------------------------------------------------------
(* The Captcha component: mount, re-render, unmount *)

\* the component mounts: first render, state false, refs null, the effect runs
Mount ==
  /\ ~mounted
  /\ HostOps < MaxHostOps
  /\ mounted' = TRUE
  /\ mounts' = mounts + 1
  /\ isInitialized' = FALSE
  /\ widgetIdRef' = Append(widgetIdRef, Null)
  /\ effects' = Append(InProgress(effects),
                       [NewEffect(FALSE, onVerifyProp) EXCEPT !.inst = mounts + 1])
  /\ UNCHANGED <<skip, mode, throwing, uncaught, themeProp, sibling, handleExecutes, onVerifyProp, widgets, handleResets, executes,
                 issued, verified>>
  /\ UNCHANGED loaderVars

\* the parent renders again and passes a new onVerify function: a dependency
\* of the effect changed
ParentRerender ==
  /\ mounted
  /\ HostOps < MaxHostOps
  /\ onVerifyProp' = onVerifyProp + 1
  /\ effects' = Rerun(effects, isInitialized, onVerifyProp')
  /\ LET ok == Returns("remove") IN
       /\ widgets' = WidgetsCleaned(widgets, ok)
       /\ widgetIdRef' = IdCleaned(ok)
  /\ UNCHANGED <<skip, mode, throwing, uncaught, themeProp, sibling, handleExecutes, mounted, mounts, isInitialized, handleResets,
                 executes, issued, verified>>
  /\ UNCHANGED loaderVars

\* the parent renders again and passes another theme, a dependency of the
\* effect too: the cleanup runs and the effect runs again with the same
\* onVerify. The theme is an option of turnstile.render and nothing else.
ThemeChange ==
  /\ mounted
  /\ themeProp < MaxThemes
  /\ themeProp' = themeProp + 1
  /\ effects' = Rerun(effects, isInitialized, onVerifyProp)
  /\ LET ok == Returns("remove") IN
       /\ widgets' = WidgetsCleaned(widgets, ok)
       /\ widgetIdRef' = IdCleaned(ok)
  /\ UNCHANGED <<skip, mode, throwing, uncaught, sibling, handleExecutes, mounted, mounts, onVerifyProp,
                 isInitialized, handleResets, executes, issued, verified>>
  /\ UNCHANGED loaderVars

\* the component unmounts: the cleanup of the current run of the effect
Unmount ==
  /\ mounted
  /\ mounted' = FALSE
  /\ effects' = EffectsCleaned(effects)
  /\ LET ok == Returns("remove") IN
       /\ widgets' = WidgetsCleaned(widgets, ok)
       /\ widgetIdRef' = IdCleaned(ok)
  /\ UNCHANGED <<skip, mode, throwing, uncaught, themeProp, sibling, handleExecutes, mounts, onVerifyProp, isInitialized,
                 handleResets, executes, issued, verified>>
  /\ UNCHANGED loaderVars

----------------------------------------------------------------------------
(* The Captcha component: initCaptcha *)

\* Mutant: initCaptcha without the isInitialized test of lines 92-94
InitCaptchaNoInitializedTest(e) ==
  /\ effects[e].pc = "timer"
  /\ IF skip
     THEN /\ verified' = Invoke(SkippedToken, effects[e].capVerify, effects[e].inst)
          /\ isInitialized' = InitializedAfterSet(TRUE, effects[e].inst)
          /\ effects' = EffectsAfterSet(Return(e), TRUE, effects[e].inst)
          /\ LET ok == Returns("remove") IN
               /\ widgets' = WidgetsAfterSet(widgets, TRUE, effects[e].inst, ok)
               /\ widgetIdRef' = IdAfterSet(TRUE, effects[e].inst, ok)
          /\ UNCHANGED loaderVars
     ELSE /\ CallLoad
          /\ effects' = [effects EXCEPT ![e] =
                           [@ EXCEPT !.pc = "awaitLoad", !.promise = LoadOutcome.ret]]
          /\ UNCHANGED <<verified, isInitialized, widgets, widgetIdRef>>
  /\ UNCHANGED <<skip, mode, throwing, uncaught, themeProp, sibling, handleExecutes, mounted, mounts, onVerifyProp, handleResets,
                 executes, issued>>

\* the 100 ms timer of run e fires: initCaptcha up to its first await
InitCaptcha(e) ==
  /\ effects[e].pc = "timer"
  /\ IF skip
     THEN /\ verified' = Invoke(SkippedToken, effects[e].capVerify, effects[e].inst)
          /\ isInitialized' = InitializedAfterSet(TRUE, effects[e].inst)
          /\ effects' = EffectsAfterSet(Return(e), TRUE, effects[e].inst)
          /\ LET ok == Returns("remove") IN
               /\ widgets' = WidgetsAfterSet(widgets, TRUE, effects[e].inst, ok)
               /\ widgetIdRef' = IdAfterSet(TRUE, effects[e].inst, ok)
          /\ UNCHANGED loaderVars
     ELSE IF effects[e].capInit
     THEN /\ effects' = Return(e)
          /\ UNCHANGED <<verified, isInitialized, widgets, widgetIdRef>>
          /\ UNCHANGED loaderVars
     ELSE /\ CallLoad
          /\ effects' = [effects EXCEPT ![e] =
                           [@ EXCEPT !.pc = "awaitLoad", !.promise = LoadOutcome.ret]]
          /\ UNCHANGED <<verified, isInitialized, widgets, widgetIdRef>>
  /\ UNCHANGED <<skip, mode, throwing, uncaught, themeProp, sibling, handleExecutes, mounted, mounts, onVerifyProp, handleResets,
                 executes, issued>>

\* the promise p (an id of loads, or Fresh) is resolved / rejected
Resolved(p) ==
  IF p = Fresh THEN TRUE
  ELSE IF p = Null THEN FALSE
  ELSE loads[p].promise = "resolved"
Rejected(p) ==
  IF p = Fresh \/ p = Null THEN FALSE
  ELSE loads[p].promise = "rejected"

\* Mutant: initCaptcha without the try/catch of lines 96-177, so that a
\* rejected load rejects the promise of initCaptcha, which nothing handles
AfterLoadUncaught(e) ==
  /\ effects[e].pc = "awaitLoad"
  /\ \/ /\ Resolved(effects[e].promise)
        /\ effects' = IF ~effects[e].isMounted THEN Return(e)
                       ELSE [effects EXCEPT ![e] =
                               [@ EXCEPT !.pc = "settle"]]
        /\ UNCHANGED uncaught
     \/ /\ Rejected(effects[e].promise)
        /\ effects' = Return(e)
        /\ uncaught' = TRUE
  /\ UNCHANGED <<skip, mode, throwing, themeProp, sibling, handleExecutes, mounted, mounts,
                 onVerifyProp, isInitialized, widgetIdRef, widgets, handleResets,
                 executes, issued, verified>>
  /\ UNCHANGED loaderVars

\* Mutant: initCaptcha that goes on after a rejected load as after a
\* resolved one
AfterLoadIgnoresRejection(e) ==
  /\ effects[e].pc = "awaitLoad"
  /\ Resolved(effects[e].promise) \/ Rejected(effects[e].promise)
  /\ effects' = IF ~effects[e].isMounted THEN Return(e)
                 ELSE [effects EXCEPT ![e] = [@ EXCEPT !.pc = "settle"]]
  /\ UNCHANGED <<skip, mode, throwing, uncaught, themeProp, sibling, handleExecutes, mounted, mounts, onVerifyProp, isInitialized,
                 widgetIdRef, widgets, handleResets, executes, issued, verified>>
  /\ UNCHANGED loaderVars

\* Mutant: initCaptcha without the isMounted test after the load
AfterLoadNoMountedTest(e) ==
  /\ effects[e].pc = "awaitLoad"
  /\ \/ /\ Resolved(effects[e].promise)
        /\ effects' = [effects EXCEPT ![e] =
                         [@ EXCEPT !.pc = "settle"]]
     \/ /\ Rejected(effects[e].promise)
        /\ effects' = Return(e)
  /\ UNCHANGED <<skip, mode, throwing, uncaught, themeProp, sibling, handleExecutes, mounted, mounts, onVerifyProp, isInitialized,
                 widgetIdRef, widgets, handleResets, executes, issued, verified>>
  /\ UNCHANGED loaderVars

\* `await load...()` of run e returns or throws
AfterLoad(e) ==
  /\ effects[e].pc = "awaitLoad"
  /\ \/ /\ Resolved(effects[e].promise)
        /\ effects' = IF ~effects[e].isMounted THEN Return(e)
                       ELSE [effects EXCEPT ![e] =
                               [@ EXCEPT !.pc = "settle"]]
     \/ /\ Rejected(effects[e].promise)
        /\ effects' = Return(e)
  /\ UNCHANGED <<skip, mode, throwing, uncaught, themeProp, sibling, handleExecutes, mounted, mounts, onVerifyProp, isInitialized,
                 widgetIdRef, widgets, handleResets, executes, issued, verified>>
  /\ UNCHANGED loaderVars

\* the 500 ms delay of run e is over (Google): grecaptcha.execute is called
\* when it is there
AfterSettle(e) ==
  /\ effects[e].pc = "settle"
  /\ provider = Google
  /\ IF ApiReady
     THEN /\ executes' = executes + 1
          /\ effects' = [effects EXCEPT ![e] =
                           [@ EXCEPT !.pc = "executing", !.token = executes + 1]]
     ELSE /\ effects' = Return(e)
          /\ UNCHANGED executes
  /\ UNCHANGED <<skip, mode, throwing, uncaught, themeProp, sibling, handleExecutes, mounted, mounts, onVerifyProp, isInitialized,
                 widgetIdRef, widgets, handleResets, issued, verified>>
  /\ UNCHANGED loaderVars

\* grecaptcha.execute of run e resolves with its token
ExecuteResolves(e) ==
  /\ effects[e].pc = "executing"
  /\ IF effects[e].isMounted
     THEN /\ isInitialized' = InitializedAfterSet(TRUE, effects[e].inst)
          /\ effects' = EffectsAfterSet(Return(e), TRUE, effects[e].inst)
          /\ verified' = Invoke(ProviderToken(effects[e].token), effects[e].capVerify,
                                effects[e].inst)
     ELSE /\ effects' = Return(e)
          /\ UNCHANGED <<isInitialized, verified>>
  /\ UNCHANGED <<skip, mode, throwing, uncaught, themeProp, sibling, handleExecutes, mounted, mounts, onVerifyProp, widgetIdRef, widgets,
                 handleResets, executes, issued>>
  /\ UNCHANGED loaderVars

\* grecaptcha.execute of run e rejects: caught and logged
ExecuteRejects(e) ==
  /\ effects[e].pc = "executing"
  /\ effects' = Return(e)
  /\ UNCHANGED <<skip, mode, throwing, uncaught, themeProp, sibling, handleExecutes, mounted, mounts, onVerifyProp, isInitialized,
                 widgetIdRef, widgets, handleResets, executes, issued, verified>>
  /\ UNCHANGED loaderVars

\* the widget turnstile.render returns to the closure c: its callbacks read
\* c's isMounted and call c's onVerify
NewWidget(c) ==
  [live |-> TRUE, state |-> "idle", isMounted |-> c.isMounted,
   capVerify |-> c.capVerify, inst |-> c.inst]

\* turnstile.execute(id): the widget id, when it is a widget not removed,
\* starts its challenge; ok says whether the call returned or threw
Executed(ws, id, ok) ==
  IF ok /\ id # Null /\ ws[id].live
  THEN [ws EXCEPT ![id] = [@ EXCEPT !.state = "executing"]]
  ELSE ws

\* Mutant: initCaptcha without the mode test of line 165
RenderWidgetAlwaysExecutes(e) ==
  /\ effects[e].pc = "settle"
  /\ provider = Cloudflare
  /\ IF ApiPresent /\ Container(effects[e].inst) /\ WidgetId(effects[e].inst) = Null
     THEN LET ok == Returns("render") IN
            IF ok
            THEN /\ widgets' = Append(widgets, NewWidget(effects[e]))
                 /\ widgetIdRef' = [widgetIdRef EXCEPT ![effects[e].inst] = Len(widgets) + 1]
                 /\ effects' = [effects EXCEPT ![e] = [@ EXCEPT !.pc = "settle2"]]
            ELSE /\ effects' = Return(e)
                 /\ UNCHANGED <<widgets, widgetIdRef>>
     ELSE /\ effects' = Return(e)
          /\ UNCHANGED <<widgets, widgetIdRef>>
  /\ UNCHANGED <<skip, mode, throwing, uncaught, themeProp, sibling, handleExecutes, mounted, mounts, onVerifyProp, isInitialized,
                 handleResets, executes, issued, verified>>
  /\ UNCHANGED loaderVars

\* Mutant: initCaptcha without the widgetIdRef test of line 136
RenderWidgetNoIdTest(e) ==
  /\ effects[e].pc = "settle"
  /\ provider = Cloudflare
  /\ IF ApiPresent /\ Container(effects[e].inst)
     THEN LET ok == Returns("render") IN
            IF ok
            THEN /\ widgets' = Append(widgets, NewWidget(effects[e]))
                 /\ widgetIdRef' = [widgetIdRef EXCEPT ![effects[e].inst] = Len(widgets) + 1]
                 /\ effects' = IF mode = "invisible"
                               THEN [effects EXCEPT ![e] = [@ EXCEPT !.pc = "settle2"]]
                               ELSE Return(e)
            ELSE /\ effects' = Return(e)
                 /\ UNCHANGED <<widgets, widgetIdRef>>
     ELSE /\ effects' = Return(e)
          /\ UNCHANGED <<widgets, widgetIdRef>>
  /\ UNCHANGED <<skip, mode, throwing, uncaught, themeProp, sibling, handleExecutes, mounted, mounts, onVerifyProp, isInitialized,
                 handleResets, executes, issued, verified>>
  /\ UNCHANGED loaderVars

\* the 500 ms delay of run e is over (Cloudflare): turnstile.render into the
\* container when there is one and no widget id is stored
RenderWidget(e) ==
  /\ effects[e].pc = "settle"
  /\ provider = Cloudflare
  /\ IF ApiPresent /\ Container(effects[e].inst) /\ WidgetId(effects[e].inst) = Null
     THEN LET ok == Returns("render") IN
            IF ok
            THEN /\ widgets' = Append(widgets, NewWidget(effects[e]))
                 /\ widgetIdRef' = [widgetIdRef EXCEPT ![effects[e].inst] = Len(widgets) + 1]
                 /\ effects' = IF mode = "invisible"
                               THEN [effects EXCEPT ![e] = [@ EXCEPT !.pc = "settle2"]]
                               ELSE Return(e)
            ELSE /\ effects' = Return(e)
                 /\ UNCHANGED <<widgets, widgetIdRef>>
     ELSE /\ effects' = Return(e)
          /\ UNCHANGED <<widgets, widgetIdRef>>
  /\ UNCHANGED <<skip, mode, throwing, uncaught, themeProp, sibling, handleExecutes, mounted, mounts, onVerifyProp, isInitialized,
                 handleResets, executes, issued, verified>>
  /\ UNCHANGED loaderVars

\* the second 500 ms delay of run e is over (Cloudflare, invisible):
\* turnstile.execute(widgetIdRef.current), with the id stored at this moment
ExecuteWidget(e) ==
  /\ effects[e].pc = "settle2"
  /\ executes' = executes + 1
  /\ LET ok == Returns("execute") IN widgets' = Executed(widgets, WidgetId(effects[e].inst), ok)
  /\ effects' = Return(e)
  /\ UNCHANGED <<skip, mode, throwing, uncaught, themeProp, sibling, handleExecutes, mounted, mounts, onVerifyProp, isInitialized,
                 widgetIdRef, handleResets, issued, verified>>
  /\ UNCHANGED loaderVars

----------------------------------------------------------------------------
(* The Captcha component: the callbacks given to turnstile.render *)

\* Turnstile calls the success callback of widget w: after execute in
\* invisible mode, after the user's interaction in checkbox mode
TurnstileSuccess(w) ==
  /\ widgets[w].live
  /\ widgets[w].state = IF mode = "invisible" THEN "executing" ELSE "idle"
  /\ issued' = issued + 1
  /\ IF widgets[w].isMounted
     THEN /\ isInitialized' = InitializedAfterSet(TRUE, widgets[w].inst)
          /\ effects' = EffectsAfterSet(effects, TRUE, widgets[w].inst)
          /\ LET ok == Returns("remove") IN
               /\ widgets' = WidgetsAfterSet([widgets EXCEPT ![w] = [@ EXCEPT !.state = "verified"]],
                                             TRUE, widgets[w].inst, ok)
               /\ widgetIdRef' = IdAfterSet(TRUE, widgets[w].inst, ok)
          /\ verified' = Invoke(ProviderToken(issued + 1), widgets[w].capVerify,
                                widgets[w].inst)
     ELSE /\ widgets' = [widgets EXCEPT ![w] = [@ EXCEPT !.state = "verified"]]
          /\ UNCHANGED <<isInitialized, effects, widgetIdRef, verified>>
  /\ UNCHANGED <<skip, mode, throwing, uncaught, themeProp, sibling, handleExecutes, mounted, mounts, onVerifyProp, handleResets, executes>>
  /\ UNCHANGED loaderVars

\* Turnstile calls the expired-callback (how = "expired", the token of a
\* verified widget ran out) or the error-callback (how = "error"): both call
\* setIsInitialized(false) and nothing else
TurnstileFails(w, how) ==
  /\ widgets[w].live
  /\ IF how = "expired" THEN widgets[w].state = "verified"
     ELSE widgets[w].state \in {"idle", "executing"}
  /\ isInitialized' = InitializedAfterSet(FALSE, widgets[w].inst)
  /\ effects' = EffectsAfterSet(effects, FALSE, widgets[w].inst)
  /\ LET ok == Returns("remove") IN
       /\ widgets' = WidgetsAfterSet([widgets EXCEPT ![w] = [@ EXCEPT !.state = how]],
                                     FALSE, widgets[w].inst, ok)
       /\ widgetIdRef' = IdAfterSet(FALSE, widgets[w].inst, ok)
  /\ UNCHANGED <<skip, mode, throwing, uncaught, themeProp, sibling, handleExecutes, mounted, mounts, onVerifyProp, handleResets,
                 executes, issued, verified>>
  /\ UNCHANGED loaderVars

----------------------------------------------------------------------------
(* The Captcha component: reset() of the imperative handle *)

\* a call of reset() that has returned
ResetDone(r) == [r EXCEPT !.pc = "done", !.capVerify = 0, !.token = 0]

\* turnstile.reset(id): the widget is back where it was after render; ok says
\* whether the call returned or threw
WidgetReset(ws, id, ok) ==
  IF ok /\ ws[id].live THEN [ws EXCEPT ![id] = [@ EXCEPT !.state = "idle"]] ELSE ws

\* The synchronous part of reset() after the skip test, for a call recorded
\* as r: setIsInitialized(false); for Cloudflare with a widget id and a
\* turnstile object, turnstile.reset(id) and, in invisible mode, the 100 ms
\* delay; for Google with grecaptcha.execute, the execute call. The render
\* that setIsInitialized(false) causes comes after it. okReset, okRemove:
\* whether turnstile.reset and the cleanup's turnstile.remove returned.
ResetBody(r, okReset, okRemove) ==
  LET id == WidgetId(mounts)
      resetsWidget == provider = Cloudflare /\ id # Null /\ ApiPresent
      executesNow == provider = Google /\ ApiReady
  IN /\ isInitialized' = InitializedAfterSet(FALSE, mounts)
     /\ effects' = EffectsAfterSet(effects, FALSE, mounts)
     /\ widgets' = WidgetsAfterSet(
                     IF resetsWidget THEN WidgetReset(widgets, id, okReset) ELSE widgets,
                     FALSE, mounts, okRemove)
     /\ widgetIdRef' = IdAfterSet(FALSE, mounts, okRemove)
     /\ executes' = IF executesNow THEN executes + 1 ELSE executes
     /\ handleResets' = Append(handleResets,
          IF resetsWidget /\ okReset /\ mode = "invisible"
          THEN [r EXCEPT !.pc = "delay", !.resetArgs = <<id>>,
                         !.resetOf = widgets[id].state]
          ELSE IF resetsWidget
          THEN [r EXCEPT !.resetArgs = <<id>>, !.resetOf = widgets[id].state]
          ELSE IF executesNow
          THEN [r EXCEPT !.pc = "executing", !.capVerify = onVerifyProp,
                         !.token = executes + 1]
          ELSE r)

\* Mutant: reset() without the skip test of line 36
HandleResetNoSkipTest ==
  /\ mounted
  /\ HostOps < MaxHostOps
  /\ LET r == [pc |-> "done", capVerify |-> 0, token |-> 0, inst |-> mounts,
               wasInit |-> isInitialized,
               executesAt |-> executes, verifiedAt |-> Len(verified),
               resetArgs |-> <<>>, executeArgs |-> <<>>,
               resetOf |-> "none"]
     IN ResetBody(r, Returns("reset"), Returns("remove"))
  /\ UNCHANGED <<skip, mode, throwing, uncaught, themeProp, sibling, handleExecutes, mounted, mounts, onVerifyProp, issued, verified>>
  /\ UNCHANGED loaderVars

\* Mutant: reset() that also clears the loader, as reset...Script does
HandleResetClearsLoader ==
  /\ mounted
  /\ HostOps < MaxHostOps
  /\ LET r == [pc |-> "done", capVerify |-> 0, token |-> 0, inst |-> mounts,
               wasInit |-> isInitialized,
               executesAt |-> executes, verifiedAt |-> Len(verified),
               resetArgs |-> <<>>, executeArgs |-> <<>>,
               resetOf |-> "none"]
     IN IF skip
        THEN /\ handleResets' = Append(handleResets, r)
             /\ UNCHANGED <<isInitialized, effects, widgets, widgetIdRef, executes>>
        ELSE ResetBody(r, Returns("reset"), Returns("remove"))
  /\ UNCHANGED <<skip, mode, throwing, uncaught, themeProp, sibling, handleExecutes, mounted, mounts, onVerifyProp, issued, verified>>
  /\ scriptLoaded' = FALSE
  /\ scriptLoading' = FALSE
  /\ loadPromise' = Null
  /\ UNCHANGED <<provider, api, foreignScript, loads, calls, resets>>

\* the host calls reset() on the handle: up to its first await. The handle
\* is made anew by every render, so reset() sees the props of the latest one.
\* wasInit, executesAt and verifiedAt remember the state it was called in,
\* resetOf the state of the widget it passes to turnstile.reset,
\* resetArgs and executeArgs the widget ids it passes to turnstile.reset and
\* turnstile.execute.
HandleReset ==
  /\ mounted
  /\ HostOps < MaxHostOps
  /\ LET r == [pc |-> "done", capVerify |-> 0, token |-> 0, inst |-> mounts,
               wasInit |-> isInitialized,
               executesAt |-> executes, verifiedAt |-> Len(verified),
               resetArgs |-> <<>>, executeArgs |-> <<>>,
               resetOf |-> "none"]
     IN IF skip
        THEN /\ handleResets' = Append(handleResets, r)
             /\ UNCHANGED <<isInitialized, effects, widgets, widgetIdRef, executes>>
        ELSE ResetBody(r, Returns("reset"), Returns("remove"))
  /\ UNCHANGED <<skip, mode, throwing, uncaught, themeProp, sibling, handleExecutes, mounted, mounts, onVerifyProp, issued, verified>>
  /\ UNCHANGED loaderVars

\* the 100 ms delay of the reset() call r is over (Cloudflare, invisible):
\* turnstile.execute(widgetIdRef.current), with the id stored at this moment
ResetExecuteWidget(r) ==
  /\ handleResets[r].pc = "delay"
  /\ executes' = executes + 1
  /\ LET ok == Returns("execute") IN
       widgets' = Executed(widgets, WidgetId(handleResets[r].inst), ok)
  /\ handleResets' = [handleResets EXCEPT ![r] =
                        ResetDone([@ EXCEPT !.executeArgs = <<WidgetId(handleResets[r].inst)>>])]
  /\ UNCHANGED <<skip, mode, throwing, uncaught, themeProp, sibling, handleExecutes, mounted, mounts, onVerifyProp, isInitialized,
                 widgetIdRef, effects, issued, verified>>
  /\ UNCHANGED loaderVars

\* Mutant: reset() reports the token reported last instead of the new one
ResetExecuteResolvesOldToken(r) ==
  /\ handleResets[r].pc = "executing"
  /\ isInitialized' = InitializedAfterSet(TRUE, handleResets[r].inst)
  /\ effects' = EffectsAfterSet(effects, TRUE, handleResets[r].inst)
  /\ verified' = Invoke(IF verified = <<>> THEN ProviderToken(handleResets[r].token)
                        ELSE verified[Len(verified)].token,
                        handleResets[r].capVerify, handleResets[r].inst)
  /\ handleResets' = [handleResets EXCEPT ![r] = ResetDone(@)]
  /\ UNCHANGED <<skip, mode, throwing, uncaught, themeProp, sibling, handleExecutes, mounted, mounts, onVerifyProp, widgetIdRef, widgets,
                 executes, issued>>
  /\ UNCHANGED loaderVars

\* grecaptcha.execute of the reset() call r resolves with its token
ResetExecuteResolves(r) ==
  /\ handleResets[r].pc = "executing"
  /\ isInitialized' = InitializedAfterSet(TRUE, handleResets[r].inst)
  /\ effects' = EffectsAfterSet(effects, TRUE, handleResets[r].inst)
  /\ verified' = Invoke(ProviderToken(handleResets[r].token), handleResets[r].capVerify,
                        handleResets[r].inst)
  /\ handleResets' = [handleResets EXCEPT ![r] = ResetDone(@)]
  /\ UNCHANGED <<skip, mode, throwing, uncaught, themeProp, sibling, handleExecutes, mounted, mounts, onVerifyProp, widgetIdRef, widgets,
                 executes, issued>>
  /\ UNCHANGED loaderVars

\* grecaptcha.execute of the reset() call r rejects: caught and logged
ResetExecuteRejects(r) ==
  /\ handleResets[r].pc = "executing"
  /\ handleResets' = [handleResets EXCEPT ![r] = ResetDone(@)]
  /\ UNCHANGED <<skip, mode, throwing, uncaught, themeProp, sibling, handleExecutes, mounted, mounts, onVerifyProp, isInitialized,
                 widgetIdRef, widgets, effects, executes, issued, verified>>
  /\ UNCHANGED loaderVars

\* the host calls execute() on the handle. The object useImperativeHandle
\* returns (lines 33-78) has the one property reset, and CaptchaRef declares
\* no other: ref.current.execute is undefined and the call throws a TypeError
\* in the host's code before anything of the component runs.
HandleExecute ==
  /\ mounted
  /\ HostOps < MaxHostOps
  /\ handleExecutes' = handleExecutes + 1
  /\ UNCHANGED <<skip, mode, throwing, uncaught, themeProp, sibling, mounted, mounts, onVerifyProp,
                 isInitialized, widgetIdRef, widgets, effects, handleResets, executes,
                 issued, verified>>
  /\ UNCHANGED loaderVars

(* A second instance of the component, of the same provider and with the
   same props. It is followed from its mount to the end of its wait for the
   script; its delay and its provider calls are not. *)

\* the second instance does not exist
NoSibling == [pc |-> "none", isMounted |-> FALSE, promise |-> Null, shared |-> FALSE]

\* the second instance and a mounted run of the first one wait for the same
\* pending promise of the loader
SharedLoad ==
  /\ sibling.pc = "awaitLoad"
  /\ sibling.promise \in 1..Len(loads)
  /\ loads[sibling.promise].promise = "pending"
  /\ \E e \in 1..Len(effects) :
       /\ effects[e].pc = "awaitLoad"
       /\ effects[e].isMounted
       /\ effects[e].promise = sibling.promise

\* the second instance mounts: its effect runs and starts the 100 ms timer
SiblingMount ==
  /\ sibling.pc = "none"
  /\ HostOps < MaxHostOps
  /\ sibling' = [NoSibling EXCEPT !.pc = "timer", !.isMounted = TRUE]
  /\ UNCHANGED <<skip, mode, throwing, uncaught, themeProp, handleExecutes, mounted, mounts, onVerifyProp,
                 isInitialized, widgetIdRef, widgets, effects, handleResets, executes,
                 issued, verified>>
  /\ UNCHANGED loaderVars

\* initCaptcha of the second instance, up to `await load...()`
SiblingInitCaptcha ==
  /\ sibling.pc = "timer"
  /\ IF skip
     THEN /\ sibling' = [sibling EXCEPT !.pc = "done"]
          /\ UNCHANGED loaderVars
     ELSE /\ CallLoad
          /\ sibling' = [sibling EXCEPT !.pc = "awaitLoad", !.promise = LoadOutcome.ret]
  /\ UNCHANGED <<skip, mode, throwing, uncaught, themeProp, handleExecutes, mounted, mounts, onVerifyProp,
                 isInitialized, widgetIdRef, widgets, effects, handleResets, executes,
                 issued, verified>>

\* `await load...()` of the second instance returns or throws
SiblingAfterLoad ==
  /\ sibling.pc = "awaitLoad"
  /\ \/ /\ Resolved(sibling.promise)
        /\ sibling' = [sibling EXCEPT !.promise = Null,
                         !.pc = IF sibling.isMounted THEN "settle" ELSE "done"]
     \/ /\ Rejected(sibling.promise)
        /\ sibling' = [sibling EXCEPT !.promise = Null, !.pc = "done"]
  /\ UNCHANGED <<skip, mode, throwing, uncaught, themeProp, handleExecutes, mounted, mounts, onVerifyProp,
                 isInitialized, widgetIdRef, widgets, effects, handleResets, executes,
                 issued, verified>>
  /\ UNCHANGED loaderVars

\* Mutant: the cleanup aborts the script load its instance waits for
SiblingUnmountAbortsLoad ==
  /\ sibling.isMounted
  /\ sibling' = [sibling EXCEPT !.isMounted = FALSE,
                   !.pc = IF @ = "timer" THEN "done" ELSE @,
                   !.shared = SharedLoad]
  /\ scriptLoading' = IF sibling.pc = "awaitLoad" THEN FALSE ELSE scriptLoading
  /\ loadPromise' = IF sibling.pc = "awaitLoad" THEN Null ELSE loadPromise
  /\ UNCHANGED <<provider, api, foreignScript, scriptLoaded, loads, calls, resets>>
  /\ UNCHANGED <<skip, mode, throwing, uncaught, themeProp, handleExecutes, mounted, mounts, onVerifyProp,
                 isInitialized, widgetIdRef, widgets, effects, handleResets, executes,
                 issued, verified>>

\* the second instance unmounts: the cleanup of its effect. It has rendered
\* no widget as far as it is followed, so its widgetIdRef.current is null.
\* shared: the unmount happened while both instances waited for one load.
SiblingUnmount ==
  /\ sibling.isMounted
  /\ sibling' = [sibling EXCEPT !.isMounted = FALSE,
                   !.pc = IF @ = "timer" THEN "done" ELSE @,
                   !.shared = SharedLoad]
  /\ UNCHANGED <<skip, mode, throwing, uncaught, themeProp, handleExecutes, mounted, mounts, onVerifyProp,
                 isInitialized, widgetIdRef, widgets, effects, handleResets, executes,
                 issued, verified>>
  /\ UNCHANGED loaderVars

\* no component exists
NoComponent ==
  /\ mounted = FALSE
  /\ mounts = 0
  /\ onVerifyProp = 1
  /\ isInitialized = FALSE
  /\ widgetIdRef = <<>>
  /\ widgets = <<>>
  /\ effects = <<>>
  /\ handleResets = <<>>
  /\ uncaught = FALSE
  /\ themeProp = 1
  /\ sibling = NoSibling
  /\ handleExecutes = 0
  /\ executes = 0
  /\ issued = 0
  /\ verified = <<>>

----------------------------------------------------------------------------
(* The loader on its own, called by any number of callers *)

NoLoad ==
  /\ scriptLoaded = FALSE
  /\ scriptLoading = FALSE
  /\ loadPromise = Null
  /\ loads = <<>>
  /\ calls = <<>>
  /\ resets = 0

Environment ==
  /\ provider \in Providers
  /\ api \in IF provider = Google THEN {"absent", "partial", "full"} ELSE {"absent", "full"}
  /\ foreignScript \in BOOLEAN

LoaderInit ==
  /\ Environment
  /\ NoLoad
  /\ skip = FALSE
  /\ mode = "invisible"
  /\ throwing = "none"
  /\ NoComponent

\* what the browser and the provider's script do to the loader
LoaderEvents ==
  \/ \E i \in 1..Len(loads) : ScriptOnload(i)
  \/ \E i \in 1..Len(loads) : ScriptOnerror(i)
  \/ \E i \in 1..Len(loads) : CheckReady(i)
  \/ \E i \in 1..Len(loads) : LoadTimeout(i)
  \/ ApiAppears

LoaderNext ==
  \/ LoadScript /\ UNCHANGED compVars
  \/ ResetScript /\ UNCHANGED compVars
  \/ LoaderEvents /\ UNCHANGED compVars

LoaderSpec == LoaderInit /\ [][LoaderNext]_vars

\* a 10 s timeout of the loader fires
TimeoutFires == \E i \in 1..Len(loads) : LoadTimeout(i) /\ UNCHANGED compVars

\* the loader with its timers: a timeout set by setTimeout (line 61) fires
LoaderFairSpec == LoaderSpec /\ WF_vars(TimeoutFires)

----------------------------------------------------------------------------
(* One component instance and the loader of its provider *)

Init ==
  /\ Environment
  /\ NoLoad
  /\ skip \in BOOLEAN
  /\ mode \in IF provider = Cloudflare /\ ~skip THEN {"invisible", "checkbox"}
              ELSE {"invisible"}
  /\ throwing \in IF provider = Cloudflare /\ ~skip
                  THEN {"none", "render", "execute", "reset", "remove"}
                  ELSE {"none"}
  /\ NoComponent

Next ==
  \/ Mount
  \/ ParentRerender
  \/ Unmount
  \/ \E e \in 1..Len(effects) : InitCaptcha(e)
  \/ \E e \in 1..Len(effects) : AfterLoad(e)
  \/ \E e \in 1..Len(effects) : AfterSettle(e)
  \/ \E e \in 1..Len(effects) : ExecuteResolves(e)
  \/ \E e \in 1..Len(effects) : ExecuteRejects(e)
  \/ \E e \in 1..Len(effects) : RenderWidget(e)
  \/ \E e \in 1..Len(effects) : ExecuteWidget(e)
  \/ \E w \in 1..Len(widgets) : TurnstileSuccess(w)
  \/ \E w \in 1..Len(widgets) : \E how \in {"expired", "error"} : TurnstileFails(w, how)
  \/ HandleReset
  \/ HandleExecute
  \/ \E r \in 1..Len(handleResets) : ResetExecuteWidget(r)
  \/ \E r \in 1..Len(handleResets) : ResetExecuteResolves(r)
  \/ \E r \in 1..Len(handleResets) : ResetExecuteRejects(r)
  \/ LoaderEvents /\ UNCHANGED compVars

Spec == Init /\ [][Next]_vars

----------------------------------------------------------------------------
(* One component instance whose parent also changes the theme prop *)

ThemeNext ==
  \/ Next
  \/ ThemeChange

ThemeSpec == Init /\ [][ThemeNext]_vars

----------------------------------------------------------------------------
(* Two component instances of one provider and its loader *)

SiblingNext ==
  \/ Next
  \/ SiblingMount
  \/ SiblingInitCaptcha
  \/ SiblingAfterLoad
  \/ SiblingUnmount

\* both instances verify (skip is false) and no Turnstile method throws
SiblingInit == Init /\ ~skip /\ throwing = "none"

SiblingSpec == SiblingInit /\ [][SiblingNext]_vars

LoaderTypeOK ==
  /\ provider \in Providers
  /\ api \in {"absent", "partial", "full"}
  /\ provider = Cloudflare => api # "partial"
  /\ scriptLoaded \in BOOLEAN /\ scriptLoading \in BOOLEAN
  /\ loadPromise \in 0..Len(loads)
  /\ \A k \in 1..Len(calls) : calls[k] \in {Fresh} \cup 1..Len(loads)

----------------------------------------------------------------------------
(* Reading a step of the loader *)

\* this step is a load() call; Ret is the promise it returned
LoadStep == Len(calls') = Len(calls) + 1
Ret == calls'[Len(calls')]

\* the promise returned by this load() call is already resolved on return
RetResolved ==
  IF Ret = Fresh THEN TRUE
  ELSE IF Ret = Null THEN FALSE
  ELSE loads'[Ret].promise = "resolved"

\* this load() call appended no script element / appended exactly one
AppendedNone == Appended(loads') = Appended(loads)
AppendedOne == Appended(loads') = Appended(loads) + 1

\* a script element appended by the loader has fired neither load nor error
Fetching(i) == loads[i].script = "fetching"
FetchInProgress == \E i \in 1..Len(loads) : Fetching(i)

\* the promise a load() call returned is resolved / rejected
CallResolved(k) ==
  IF calls[k] = Fresh THEN TRUE ELSE loads[calls[k]].promise = "resolved"
CallRejected(k) ==
  IF calls[k] = Fresh THEN FALSE ELSE loads[calls[k]].promise = "rejected"

\* the script of loads[i] fired its load event, its timeout has fired too
TimedOut(i) == loads[i].script = "loaded" /\ ~loads[i].timer

\* nothing of the loader is still to happen: no fetch, poll or timeout is pending
LoaderQuiet ==
  \A i \in 1..Len(loads) : ~Fetching(i) /\ ~loads[i].poll /\ ~loads[i].timer

----------------------------------------------------------------------------
(* C1 .. C7: the loaders *)

\* C1 (as claimed): with no loader reset and no fetch error, whatever the number
\* of load() calls and their interleaving with the load event, the poll and the
\* timeout, the loader appends one script element only (none when the API was
\* there before), and once the API is usable and the loader has come to rest
\* every caller's promise is resolved, unless the timeout rejected it before
\* the API appeared.
C1_OneScriptForAllCallers ==
  (resets = 0 /\ \A i \in 1..Len(loads) : loads[i].script # "error") =>
    /\ Appended(loads) <= 1
    /\ (ApiReady /\ LoaderQuiet) =>
         \A k \in 1..Len(calls) :
           CallResolved(k) \/ (CallRejected(k) /\ TimedOut(calls[k]))

\* C2 (as claimed): a load() call made while a fetch is in progress returns the
\* promise of that fetch and appends no script element.
C2_Original ==
  [][(LoadStep /\ FetchInProgress) =>
       /\ AppendedNone
       /\ Ret # Fresh /\ Fetching(Ret)]_vars

\* C2 (amended): with no loader reset, a load() call made while a fetch is in
\* progress appends no script element and returns the promise of that fetch,
\* which is the loader's pending promise; only when the loaded flag is already
\* true and the API object present does it return a fresh resolved promise.
C2_SharedWhileFetching ==
  [][(LoadStep /\ FetchInProgress /\ resets = 0) =>
       /\ AppendedNone
       /\ IF scriptLoaded /\ ApiPresent
          THEN Ret = Fresh
          ELSE Ret = loadPromise /\ Fetching(Ret) /\ loads'[Ret].promise = "pending"]_vars

\* C2 witness: two calls hold the same promise, whose script is still being fetched
C2_Witness ==
  /\ resets = 0
  /\ \E k \in 1..Len(calls) : \E l \in 1..Len(calls) :
       k < l /\ calls[k] = calls[l] /\ calls[k] # Fresh /\ Fetching(calls[k])

\* C3 (as claimed): whenever the API object exists when load() is called, the
\* call returns an already-resolved promise and appends no script element.
C3_Original ==
  [][(LoadStep /\ ApiPresent) => (RetResolved /\ AppendedNone)]_vars

\* C3 (amended): when the API object exists at the call, load() appends no
\* script element and returns an already-resolved promise, with two exceptions:
\* mid-load (loaded flag false, loading flag true, pending promise set) it
\* returns the loader's pending promise; and for Google, when grecaptcha lacks
\* execute, the loaded flag is false and no matching script tag is in the DOM,
\* it starts a fetch.
C3_ResolvesWhenApiPresent ==
  [][(LoadStep /\ ApiPresent) =>
       IF ~scriptLoaded /\ scriptLoading /\ loadPromise # Null
       THEN Ret = loadPromise /\ AppendedNone
       ELSE IF ~ApiReady /\ ~scriptLoaded /\ ~ExistingScript
       THEN AppendedOne /\ loads'[Ret].promise = "pending"
       ELSE RetResolved /\ AppendedNone]_vars

\* C3 witness: the API and a foreign script tag were there, and load()
\* returned a resolved promise without appending anything
C3_Witness ==
  /\ calls # <<>>
  /\ foreignScript /\ ApiPresent
  /\ Appended(loads) = 0
  /\ calls[Len(calls)] = Fresh

ErrorStep(i) == i <= Len(loads) /\ Fetching(i) /\ loads'[i].script = "error"

\* load() is called after a fetch failure left the loader cleared
LoadAfterError ==
  /\ LoadStep
  /\ ~scriptLoading /\ loadPromise = Null
  /\ \E i \in 1..Len(loads) : loads[i].script = "error"

\* C5 (as claimed): the error event rejects the promise with the fetch error
\* and leaves loading false and the pending promise null; the next load()
\* appends a new script element and returns a new pending promise.
C5_Original ==
  [][/\ \A i \in 1..MaxCalls : ErrorStep(i) =>
          /\ loads'[i].promise = "rejected" /\ loads'[i].error = FetchError(provider)
          /\ ~scriptLoading' /\ loadPromise' = Null
     /\ LoadAfterError =>
          /\ AppendedOne
          /\ Ret = Len(loads') /\ Ret > Len(loads) /\ loads'[Ret].promise = "pending"]_vars

\* C5 (amended): as claimed for the error event; the next load() starts from
\* scratch (new script element, new pending promise) when the API object is
\* still absent, and returns an already-resolved promise without appending
\* when it is present; it never returns the rejected promise.
C5_RetryAfterFetchError ==
  [][/\ \A i \in 1..MaxCalls : ErrorStep(i) =>
          /\ loads'[i].promise = "rejected" /\ loads'[i].error = FetchError(provider)
          /\ ~scriptLoading' /\ loadPromise' = Null
     /\ LoadAfterError =>
          IF ApiPresent
          THEN RetResolved /\ AppendedNone
          ELSE /\ AppendedOne
               /\ Ret = Len(loads') /\ Ret > Len(loads)
               /\ loads'[Ret].promise = "pending"]_vars

\* C5 witness: a fetch failed and the load() after it appended a new script
C5_Witness ==
  /\ calls # <<>>
  /\ \E i \in 1..Len(loads) : \E j \in 1..Len(loads) :
       /\ i < j /\ j = calls[Len(calls)]
       /\ loads[i].script = "error" /\ loads[i].promise = "rejected"
       /\ Fetching(j) /\ loads[j].promise = "pending"

\* C6 (as claimed): a resolved loader promise means the API is usable
\* (turnstile; grecaptcha with execute). The API object never goes away once
\* it is there, so "at the moment it resolves" is "in every state where it is
\* resolved".
C6_ResolvedMeansUsable ==
  /\ \A i \in 1..Len(loads) : loads[i].promise = "resolved" => ApiReady
  /\ \A k \in 1..Len(calls) : calls[k] = Fresh => ApiReady

\* a reset runs in this step
ResetStep == resets' = resets + 1

\* C7: a reset leaves loaded false, loading false and the pending promise
\* null, and touches no promise, script, poll or timeout; a promise that was
\* pending at a reset settles as any other does, by its own script: resolved
\* only after its script loaded and with the API present, rejected only by its
\* script's error event or by its own timeout with the API absent; and while
\* its script is being fetched both events can still fire.
C7_ResetKeepsPromises ==
  /\ [][ResetStep =>
          /\ ~scriptLoaded' /\ ~scriptLoading' /\ loadPromise' = Null
          /\ Len(loads') = Len(loads)
          /\ \A i \in 1..Len(loads) :
               /\ loads'[i].promise = loads[i].promise
               /\ loads'[i].script = loads[i].script
               /\ loads'[i].poll = loads[i].poll
               /\ loads'[i].timer = loads[i].timer]_vars
  /\ [][\A i \in 1..Len(loads) :
          (loads[i].orphaned /\ loads[i].promise = "pending") =>
            /\ loads'[i].promise = "resolved" =>
                 loads[i].script = "loaded" /\ ApiPresent
            /\ loads'[i].promise = "rejected" =>
                 \/ ErrorStep(i) /\ loads'[i].error = FetchError(provider)
                 \/ /\ loads[i].script = "loaded" /\ loads[i].timer /\ ~ApiPresent
                    /\ loads'[i].error = TimeoutError(provider)]_vars
  /\ [](\A i \in 1..Len(loads) :
          (loads[i].orphaned /\ Fetching(i)) =>
            ENABLED ScriptOnload(i) /\ ENABLED ScriptOnerror(i))

\* C7 witness: a promise that was pending at a reset has since resolved
C7_Witness ==
  /\ resets > 0
  /\ \E i \in 1..Len(loads) : loads[i].orphaned /\ loads[i].promise = "resolved"

----------------------------------------------------------------------------
(* C8 .. C10: skip mode, and reset() of a GoogleV3 instance *)

\* nothing of the component is still to happen: no initCaptcha and no
\* reset() in progress
ComponentQuiet ==
  /\ \A e \in 1..Len(effects) : effects[e].pc = "done"
  /\ \A r \in 1..Len(handleResets) : handleResets[r].pc = "done"

\* C8 (as claimed): with skip=true, onVerify is invoked with "skipped" and
\* with nothing else, at most once per mount, and once the mounted component
\* has come to rest it has been invoked.
C8_SkippedExactlyOnce ==
  skip =>
    /\ \A k \in 1..Len(verified) : verified[k].token = SkippedToken
    /\ Len(verified) <= mounts
    /\ (mounted /\ ComponentQuiet) => Len(verified) >= 1

\* a call of the handle's reset() happens in this step
HandleResetStep == Len(handleResets') = Len(handleResets) + 1

\* C9: with skip=true the loader is never called, no script element is
\* appended, grecaptcha.execute and turnstile.execute are never called, no
\* widget is rendered and no widget identifier is ever stored; and a call of
\* reset() invokes no onVerify and changes neither the initialized flag, nor
\* the widget identifier, nor any run of the effect.
C9_SkipTouchesNoProvider ==
  /\ [](skip => /\ calls = <<>> /\ loads = <<>>
                /\ executes = 0
                /\ widgets = <<>>
                /\ \A i \in 1..Len(widgetIdRef) : widgetIdRef[i] = Null)
  /\ [][(skip /\ HandleResetStep) =>
          /\ verified' = verified
          /\ isInitialized' = isInitialized
          /\ widgetIdRef' = widgetIdRef /\ widgets' = widgets
          /\ effects' = effects /\ executes' = executes]_vars

\* C9 witness: a skip instance was mounted, reported, re-rendered as
\* initialized, had reset() called and was unmounted
C9_Witness ==
  /\ skip /\ ~mounted /\ mounts = 1
  /\ isInitialized
  /\ Len(handleResets) = 1
  /\ Len(verified) >= 1

\* C10 (as claimed): after reset() was called on an initialized GoogleV3
\* instance that stays mounted (and whose parent passed no new onVerify),
\* there is exactly one new grecaptcha.execute call, at most one new onVerify
\* invocation, and that one carries the token of the new call.
C10_ResetOneExecuteOneVerify ==
  \A r \in 1..Len(handleResets) :
    (/\ ~skip /\ provider = Google
     /\ mounted /\ mounts = 1 /\ onVerifyProp = 1
     /\ Len(handleResets) = 1
     /\ handleResets[r].wasInit) =>
      /\ executes = handleResets[r].executesAt + 1
      /\ Len(verified) <= handleResets[r].verifiedAt + 1
      /\ \A k \in 1..Len(verified) :
           k > handleResets[r].verifiedAt =>
             verified[k].token = ProviderToken(handleResets[r].executesAt + 1)

----------------------------------------------------------------------------
(* Claims about the component: reset, unmount, triggers, tokens *)

\* the instance inst has rendered a widget; the widget it rendered last
HasWidget(inst) == \E w \in 1..Len(widgets) : widgets[w].inst = inst
LastWidget(inst) ==
  CHOOSE w \in 1..Len(widgets) :
    /\ widgets[w].inst = inst
    /\ \A v \in 1..Len(widgets) : widgets[v].inst = inst => v <= w

\* the record of the reset() call made in this step
NewReset == handleResets'[Len(handleResets')]

\* C11 (as claimed): when no turnstile method throws, reset() on a mounted
\* Cloudflare instance that has rendered a widget, verified or not, calls
\* turnstile.reset with the id of that widget; a reset() that called
\* turnstile.reset and has returned has, in invisible mode, called
\* turnstile.execute with the same id, and in checkbox mode made no execute
\* call.
C11_ResetCallsTurnstileReset ==
  /\ [][(/\ HandleResetStep
         /\ provider = Cloudflare /\ ~skip /\ throwing = "none"
         /\ HasWidget(mounts))
        => NewReset.resetArgs = <<LastWidget(mounts)>>]_vars
  /\ [](\A r \in 1..Len(handleResets) :
          (/\ provider = Cloudflare /\ throwing = "none"
           /\ handleResets[r].resetArgs # <<>>
           /\ handleResets[r].pc = "done")
          => handleResets[r].executeArgs =
               IF mode = "invisible" THEN handleResets[r].resetArgs ELSE <<>>)

\* C12 (as claimed): every onVerify invocation is made for an instance that
\* is mounted at that moment, whichever closure makes it (initCaptcha, a
\* success callback of Turnstile, or reset()).
C12_NoVerifyAfterUnmount ==
  \A k \in 1..Len(verified) : verified[k].live

\* the instance inst is not mounted (any more)
Unmounted(inst) == ~(mounted /\ inst = mounts)

\* C13: when the load awaited by a run of the effect settles after that
\* run's instance has unmounted, the run returns at once: no onVerify, no
\* turnstile.render, no execute call, and a rejection is caught.
C13_UnmountedBeforeLoadSettles ==
  [][\A e \in 1..Len(effects) :
       (/\ effects[e].pc = "awaitLoad"
        /\ Unmounted(effects[e].inst)
        /\ AfterLoad(e))
       => /\ effects' = Return(e)
          /\ verified' = verified
          /\ widgets' = widgets /\ widgetIdRef' = widgetIdRef
          /\ executes' = executes]_vars

\* C13 witness: a Google instance called the loader, which appended a script
\* element, and was unmounted; the load resolved with grecaptcha.execute there, every run has returned and no
\* execute call was made
C13_Witness ==
  /\ provider = Google /\ ~skip /\ ApiReady
  /\ ~mounted /\ mounts = 1
  /\ Len(calls) = 1 /\ Resolved(calls[1]) /\ Appended(loads) = 1
  /\ InProgress(effects) = <<>>
  /\ handleResets = <<>>
  /\ executes = 0 /\ verified = <<>>

\* C14: for Cloudflare in checkbox mode onVerify is invoked only by a success
\* callback of Turnstile, with the token Turnstile passes to it; a step that
\* renders a widget invokes no onVerify; and turnstile.execute is never
\* called.
C14_CheckboxVerifiesOnSuccessOnly ==
  /\ [][(provider = Cloudflare /\ ~skip /\ mode = "checkbox")
        => /\ verified' # verified
                => /\ issued' = issued + 1
                   /\ Len(verified') = Len(verified) + 1
                   /\ verified'[Len(verified')].token = ProviderToken(issued')
           /\ Len(widgets') > Len(widgets) => verified' = verified]_vars
  /\ []((provider = Cloudflare /\ ~skip /\ mode = "checkbox") => executes = 0)

\* C14 witness: a checkbox widget was rendered, the user solved it and
\* onVerify was invoked
C14_Witness ==
  /\ provider = Cloudflare /\ ~skip /\ mode = "checkbox"
  /\ mounted
  /\ Len(widgets) >= 1
  /\ issued = 1
  /\ Len(verified) = 1

\* the first mount of a non-skip component in invisible mode, still mounted,
\* with the props it was mounted with and no call on its handle, whose load
\* resolved and whose runs of the effect have all returned
AutoExecuteDue ==
  /\ ~skip /\ mode = "invisible" /\ throwing = "none"
  /\ mounted /\ mounts = 1 /\ onVerifyProp = 1
  /\ handleResets = <<>>
  /\ Len(calls) >= 1 /\ Resolved(calls[1])
  /\ InProgress(effects) = <<>>

\* C15 (as claimed): such a component has issued the provider's execute call
\* by the time its initialization has come to rest.
C15_InvisibleAutoExecutes ==
  AutoExecuteDue => executes >= 1

\* C16 (as claimed): as long as the host has called no method of the handle,
\* a non-skip component makes no execute call, and onVerify is invoked only
\* for a Turnstile checkbox the user has solved.
C16_NoAutoExecution ==
  (~skip /\ handleResets = <<>>) =>
    /\ executes = 0
    /\ verified # <<>> => (provider = Cloudflare /\ mode = "checkbox" /\ issued >= 1)

\* a call of the handle's execute() happens in this step
HandleExecuteStep == handleExecutes' = handleExecutes + 1

\* C17 (as claimed): execute() called on a mounted non-skip instance whose
\* provider script has loaded starts one provider verification: one execute
\* call for Google or for a rendered invisible Turnstile widget.
C17_ExecuteTriggersVerification ==
  [][(/\ HandleExecuteStep
      /\ ~skip /\ mounted /\ scriptLoaded /\ ApiReady
      /\ (provider = Cloudflare => (mode = "invisible" /\ WidgetId(mounts) # Null)))
     => executes' = executes + 1]_vars

\* the onVerify invocation k carries a token of the provider
FromProvider(k) == verified[k].token.kind = "provider"

\* C18: no two onVerify invocations carry the same token of the provider, and
\* every such token is one the provider has produced: that of a
\* grecaptcha.execute call made, or one Turnstile passed to a success callback.
C18_TokenReportedOnce ==
  /\ \A j \in 1..Len(verified) : \A k \in 1..Len(verified) :
       (j < k /\ FromProvider(j) /\ FromProvider(k))
       => verified[j].token # verified[k].token
  /\ \A k \in 1..Len(verified) :
       FromProvider(k)
       => verified[k].token.id \in 1..(IF provider = Google THEN executes ELSE issued)

\* C18 witness: one instance reported two tokens of the provider
C18_Witness ==
  /\ Len(verified) >= 2
  /\ FromProvider(1) /\ FromProvider(2)
  /\ verified[1].inst = verified[2].inst

\* the provider completes a verification in this step: Turnstile calls a
\* success callback, or a grecaptcha.execute call of the component resolves
VerificationSucceeds ==
  \/ issued' = issued + 1
  \/ \E e \in 1..Len(effects) : effects[e].pc = "executing" /\ ExecuteResolves(e)
  \/ \E r \in 1..Len(handleResets) :
       handleResets[r].pc = "executing" /\ ResetExecuteResolves(r)

\* C19 (as claimed): while the component has been mounted without a break,
\* every verification the provider completes leads to one onVerify
\* invocation.
C19_EveryVerificationReported ==
  [][(~skip /\ mounted /\ mounts = 1 /\ VerificationSucceeds)
     => Len(verified') = Len(verified) + 1]_vars

\* the parent passes a new onVerify function in this step
ParentRerenderStep == onVerifyProp' = onVerifyProp + 1

\* C20: a run of the effect that a render of an initialized non-skip
\* instance started returns when its timer fires: it calls no loader, makes no
\* turnstile.render and no execute call, and invokes no onVerify. A parent
\* re-render of an initialized instance starts such a run and itself calls and
\* invokes none of these.
C20_NoReinitWhileInitialized ==
  /\ [](~skip => \A e \in 1..Len(effects) :
                   effects[e].capInit => effects[e].pc = "timer")
  /\ [][\A e \in 1..Len(effects) :
          (~skip /\ effects[e].pc = "timer" /\ effects[e].capInit /\ InitCaptcha(e))
          => /\ calls' = calls /\ loads' = loads
             /\ executes' = executes
             /\ widgets' = widgets
             /\ verified' = verified]_vars
  /\ [][(~skip /\ isInitialized /\ ParentRerenderStep)
        => /\ effects'[Len(effects')].capInit
           /\ calls' = calls /\ loads' = loads
           /\ executes' = executes
           /\ Len(widgets') = Len(widgets)
           /\ verified' = verified]_vars

\* C20 witness: a verified non-skip instance was rendered again with a new
\* onVerify function, and the run of the effect this started has returned
C20_Witness ==
  /\ ~skip /\ mounted /\ mounts = 1
  /\ isInitialized
  /\ onVerifyProp = 2
  /\ InProgress(effects) = <<>>
  /\ Len(verified) = 1 /\ verified[1].fn = 1
  /\ Len(calls) = 1

----------------------------------------------------------------------------
(* Claims about overlapping initializations, teardown and failures *)

\* the run e of the effect makes a step after one of its delays
AfterDelay(e) == AfterSettle(e) \/ RenderWidget(e) \/ ExecuteWidget(e)

\* C21 (as claimed): a run of the effect that was cleaned up because the
\* effect ran again, of an instance still mounted, makes no provider call
\* (turnstile.render, turnstile.execute, grecaptcha.execute) afterwards.
C21_NoOverlappingInitializations ==
  [][\A e \in 1..Len(effects) :
       (/\ ~effects[e].isMounted
        /\ mounted /\ effects[e].inst = mounts
        /\ AfterDelay(e))
       => /\ executes' = executes
          /\ Len(widgets') = Len(widgets)]_vars

\* the component unmounts in this step / mounts in this step
UnmountStep == mounted /\ ~mounted'
MountStep == mounts' = mounts + 1

\* the unmount of a Cloudflare instance that holds the id of a widget it
\* rendered removes that widget and clears the id
UnmountRemoves ==
  (UnmountStep /\ provider = Cloudflare /\ ~skip /\ WidgetId(mounts) # Null)
  => /\ ~widgets'[WidgetId(mounts)].live
     /\ widgetIdRef'[mounts] = Null

\* no widget rendered by an unmounted instance is live
NoWidgetOutlivesInstance ==
  \A w \in 1..Len(widgets) : Unmounted(widgets[w].inst) => ~widgets[w].live

\* a mount starts without a widget id, so that it renders a new widget
MountStartsClean == MountStep => widgetIdRef'[mounts'] = Null

\* C22 (as claimed): whatever turnstile.remove does, the unmount removes the
\* widget and clears the id, no widget outlives its instance, and a remount
\* starts clean.
C22_Original ==
  /\ [][UnmountRemoves]_vars
  /\ []NoWidgetOutlivesInstance
  /\ [][MountStartsClean]_vars

\* C22 (amended): the same when turnstile.remove returns; when it throws, the
\* unmount leaves the widget and the stored id as they are. A remount starts
\* clean in both cases.
C22_TeardownUnlessRemoveThrows ==
  /\ [][IF Returns("remove") THEN UnmountRemoves
        ELSE (UnmountStep /\ provider = Cloudflare /\ ~skip /\ WidgetId(mounts) # Null)
             => /\ widgetIdRef' = widgetIdRef
                /\ widgets'[WidgetId(mounts)].live = widgets[WidgetId(mounts)].live]_vars
  /\ [](Returns("remove") => NoWidgetOutlivesInstance)
  /\ [][MountStartsClean]_vars

\* C22 witness: the first instance rendered a widget and was unmounted, which
\* removed the widget; the component was mounted again and the second
\* instance rendered a widget of its own
C22_Witness ==
  /\ provider = Cloudflare /\ ~skip /\ Returns("remove")
  /\ mounted /\ mounts = 2
  /\ Len(widgets) = 2
  /\ widgets[1].inst = 1 /\ ~widgets[1].live /\ WidgetId(1) = Null
  /\ widgets[2].inst = 2 /\ widgets[2].live /\ WidgetId(2) = 2

\* Steps in which something fails inside the component: the awaited load of
\* run e has rejected; turnstile.render or turnstile.execute throws in run e;
\* grecaptcha.execute of run e rejects
InitFails(e) ==
  \/ effects[e].pc = "awaitLoad" /\ Rejected(effects[e].promise) /\ AfterLoad(e)
  \/ /\ throwing = "render"
     /\ ApiPresent /\ Container(effects[e].inst) /\ WidgetId(effects[e].inst) = Null
     /\ RenderWidget(e)
  \/ throwing = "execute" /\ ExecuteWidget(e)
  \/ ExecuteRejects(e)

\* turnstile.reset throws in reset(); turnstile.execute throws in the reset()
\* call r, or its grecaptcha.execute rejects
ResetThrows ==
  /\ HandleResetStep /\ ~skip
  /\ throwing = "reset"
  /\ provider = Cloudflare /\ WidgetId(mounts) # Null /\ ApiPresent
ResetFails(r) ==
  \/ throwing = "execute" /\ ResetExecuteWidget(r)
  \/ ResetExecuteRejects(r)

\* turnstile.remove throws in the cleanup of an unmount or of a parent's
\* re-render
CleanupFails ==
  /\ UnmountStep \/ ParentRerenderStep
  /\ RemoveCalled /\ throwing = "remove"

InitFailed ==
  /\ ~skip /\ mounted /\ ~isInitialized /\ ComponentQuiet
  /\ Len(calls) >= 1
  /\ \/ provider = Google
     \/ CallRejected(Len(calls))
     \/ throwing = "render"

\* C24 (as claimed): after a failed initialization the instance starts no
\* new attempt and makes no loader or provider call unless the host calls
\* reset() or remounts the component.
C24_NoRetryAfterFailure ==
  [][(InitFailed /\ ~HandleResetStep /\ ~UnmountStep)
       => /\ InProgress(effects') = <<>>
          /\ calls' = calls
          /\ executes' = executes
          /\ Len(widgets') = Len(widgets)]_vars


(* C25: reset() after a failed initialization *)

\* the mounted instance is at rest after its initialization failed because
\* the load was rejected or turnstile.render threw
LoadOrRenderFailed ==
  /\ ~skip /\ mounted /\ ~isInitialized /\ ComponentQuiet
  /\ Len(calls) >= 1
  /\ \/ CallRejected(Len(calls))
     \/ provider = Cloudflare /\ throwing = "render" /\ CallResolved(Len(calls))

\* C25 (as claimed): reset() after a load rejection or a throwing render
\* starts a new attempt: it calls the loader or the provider again, or at
\* least starts a new initialization.
C25_ResetRetriesAfterFailure ==
  [][(LoadOrRenderFailed /\ HandleResetStep)
       => \/ Len(calls') > Len(calls)
          \/ executes' > executes
          \/ NewReset.resetArgs # <<>>
          \/ InProgress(effects') # <<>>]_vars


(* C26: two instances waiting for one script load *)

SiblingUnmountStep == sibling.isMounted /\ ~sibling'.isMounted

\* the first instance's `await load...()` returns in this step, for a run
\* that is still mounted and whose load was resolved
LoadDelivered(e) ==
  /\ effects[e].pc = "awaitLoad"
  /\ effects[e].isMounted
  /\ Resolved(effects[e].promise)
  /\ AfterLoad(e)

\* C26: when one of two instances waiting for the same script load unmounts,
\* the loader's flags, its pending promise and its load are unchanged and so
\* is the wait of the other instance; the instance that stays mounted then
\* receives the outcome of the load and goes on with its initialization.
C26_UnmountLeavesSharedLoad ==
  /\ [][(SharedLoad /\ SiblingUnmountStep)
          => /\ scriptLoaded' = scriptLoaded
             /\ scriptLoading' = scriptLoading
             /\ loadPromise' = loadPromise
             /\ loads' = loads
             /\ effects' = effects]_vars
  /\ [][\A e \in 1..Len(effects) :
          (sibling.shared /\ LoadDelivered(e)) => effects'[e].pc = "settle"]_vars

\* the second instance unmounted during the shared load, and the first one,
\* still mounted, has reported a token of the provider
C26_Witness ==
  /\ sibling.shared /\ ~sibling.isMounted
  /\ mounted /\ mounts = 1 /\ isInitialized
  /\ Len(calls) = 2 /\ calls[1] = calls[2]
  /\ \E v \in 1..Len(verified) :
       verified[v].live /\ verified[v].inst = 1 /\ verified[v].token # SkippedToken


(* C27: delays pending at unmount *)

\* C27 (as claimed): a delay of an instance that ends after the instance has
\* unmounted leads to no provider call: neither the 500 ms delay after the
\* script load, nor the delay before the automatic turnstile.execute, nor
\* the 100 ms delay of reset().
C27_NoProviderCallAfterUnmount ==
  /\ [][\A e \in 1..Len(effects) :
          (Unmounted(effects[e].inst) /\ AfterDelay(e))
          => /\ executes' = executes
             /\ Len(widgets') = Len(widgets)]_vars
  /\ [][\A r \in 1..Len(handleResets) :
          (Unmounted(handleResets[r].inst) /\ ResetExecuteWidget(r))
          => executes' = executes]_vars


(* C28 .. C30: the loaders again *)

\* C28 (as claimed): without a reset, the loaded flag stays true once it is
\* true, and a loader whose loaded flag is true never sets the loading flag
\* again and makes no new promise.
C28_LoaderStateMonotonic ==
  [][(scriptLoaded /\ ~ResetStep)
       => /\ scriptLoaded'
          /\ scriptLoading' => scriptLoading
          /\ Len(loads') = Len(loads)]_vars


\* the promise of loads[i] is settled
Settled(i) == loads[i].promise # "pending"

\* the script element of loads[i] has fired its load or its error event
ScriptFired(i) == i <= Len(loads) /\ loads[i].script \in {"loaded", "error"}

\* the 10 s timeout of loads[i] fires in this step
TimeoutStep(i) == i <= Len(loads) /\ loads[i].timer /\ ~loads'[i].timer

\* C29: a promise of the loader settles once its script element has fired
\* load or error (time and again every such promise is settled, and a settled
\* promise stays as it is), and settles once. After the load event it becomes resolved
\* only with the API object present, at the latest at the timeout, and
\* rejected only at the timeout with the API object absent, with the timeout
\* error; a timeout that finds the promise settled changes nothing of it.
C29_PromiseSettlesOnce ==
  /\ []<>(\A i \in 1..Len(loads) : ScriptFired(i) => Settled(i))
  /\ [][\A i \in 1..Len(loads) :
          Settled(i) => /\ loads'[i].promise = loads[i].promise
                        /\ loads'[i].error = loads[i].error]_vars
  /\ [][\A i \in 1..Len(loads) :
          (loads[i].script = "loaded" /\ ~Settled(i) /\ loads'[i].promise = "resolved")
          => ApiPresent]_vars
  /\ [][\A i \in 1..Len(loads) :
          (loads[i].script = "loaded" /\ ~Settled(i) /\ loads'[i].promise = "rejected")
          => TimeoutStep(i) /\ ~ApiPresent /\ loads'[i].error = TimeoutError(provider)]_vars
  /\ [][\A i \in 1..Len(loads) :
          (TimeoutStep(i) /\ ~Settled(i))
          => loads'[i].promise = IF ApiPresent THEN "resolved" ELSE "rejected"]_vars
  /\ [](\A i \in 1..Len(loads) : TimedOut(i) => Settled(i))

\* the API did not appear in time for the first load, which its timeout
\* rejected; it did for the second, whose poll resolved the promise and whose
\* timeout is still to fire
C29_Witness ==
  /\ Len(loads) = 2
  /\ TimedOut(1) /\ loads[1].promise = "rejected"
  /\ loads[1].error = TimeoutError(provider)
  /\ loads[2].script = "loaded" /\ loads[2].promise = "resolved"
  /\ ~loads[2].poll /\ loads[2].timer


\* some load was rejected by its timeout
TimeoutRejected ==
  \E i \in 1..Len(loads) : TimedOut(i) /\ loads[i].promise = "rejected"

\* the promise this load() call returned is pending and its script element
\* is being fetched
RetFetching ==
  /\ Ret \in 1..Len(loads')
  /\ loads'[Ret].promise = "pending"
  /\ loads'[Ret].script = "fetching"

\* C30: after a load was rejected by its timeout, only a load() call appends
\* a script element, and a load() call never returns a rejected promise. It
\* returns the loader's pending promise when a load is in progress (and the
\* loaded flag is false or the API object absent), appending nothing;
\* otherwise, with the API object present, an already-resolved promise,
\* appending nothing; otherwise the pending promise of a new script element.
\* A pending promise is rejected with the API object present only by the
\* error event of its own script, and it settles once its script has loaded
\* and the API object is present.
C30_LoadAfterTimeout ==
  [][TimeoutRejected
       => IF LoadStep
          THEN /\ IF Ret = Fresh THEN TRUE ELSE loads'[Ret].promise # "rejected"
               /\ IF scriptLoading /\ loadPromise # Null /\ ~(scriptLoaded /\ ApiPresent)
                  THEN AppendedNone /\ Ret = loadPromise /\ RetFetching
                  ELSE IF ApiPresent
                  THEN AppendedNone /\ RetResolved
                  ELSE AppendedOne /\ Ret = Len(loads) + 1 /\ RetFetching
          ELSE AppendedNone]_vars
  /\ [][\A i \in 1..Len(loads) :
          (TimeoutRejected /\ ~Settled(i) /\ ApiPresent /\ loads'[i].promise = "rejected")
          => loads'[i].script = "error"]_vars
  /\ []<>(\A i \in 1..Len(loads) :
            (TimeoutRejected /\ loads[i].script = "loaded" /\ ApiPresent)
            => Settled(i))

\* the first load was rejected by its timeout; the next call of load()
\* returned a new promise, which resolved once the API was there
C30_Witness ==
  /\ resets = 0
  /\ calls = <<1, 2>>
  /\ TimedOut(1) /\ loads[1].promise = "rejected"
  /\ loads[1].error = TimeoutError(provider)
  /\ loads[2].script = "loaded" /\ loads[2].promise = "resolved"


----------------------------------------------------------------------------
(* Claims about Turnstile widgets, the order of calls and the loader's frame *)

\* the live widgets of the instance inst
LiveWidgets(inst) == {w \in 1..Len(widgets) : widgets[w].inst = inst /\ widgets[w].live}

\* turnstile.render returns a widget in this step
RenderStep == Len(widgets') = Len(widgets) + 1

\* C31: an instance has at most one widget rendered and not removed, and that
\* widget is the one whose id the instance stores; turnstile.render is called
\* only while the stored id of the rendering instance is null.
C31_AtMostOneLiveWidget ==
  /\ [](\A inst \in 1..mounts :
          /\ Cardinality(LiveWidgets(inst)) <= 1
          /\ \A w \in LiveWidgets(inst) : WidgetId(inst) = w)
  /\ [][RenderStep => WidgetId(widgets'[Len(widgets')].inst) = Null]_vars

\* two runs of the effect overlapped: the superseded one rendered the widget,
\* and the later one found the id stored and rendered nothing
C31_Witness ==
  /\ provider = Cloudflare /\ mounted /\ mounts = 1
  /\ onVerifyProp = 2
  /\ Len(calls) = 2
  /\ Len(widgets) = 1 /\ widgets[1].live /\ ~widgets[1].isMounted
  /\ WidgetId(1) = 1
  /\ effects[Len(effects)].pc = "done" /\ effects[Len(effects)].isMounted


\* the run e of the effect calls grecaptcha.execute, turnstile.render or
\* turnstile.execute in this step
ProviderCall(e) == AfterDelay(e) /\ (executes' = executes + 1 \/ RenderStep)

\* C32: when a run of the effect calls a provider API, the promise the loader
\* returned to that run is resolved: no call before it settles and none after
\* it was rejected. initCaptcha calls nothing of the provider before and
\* while it awaits the load.
C32_ProviderCallAfterLoad ==
  /\ [][\A e \in 1..Len(effects) :
          ProviderCall(e) => Resolved(effects[e].promise)]_vars
  /\ [][\A e \in 1..Len(effects) :
          (InitCaptcha(e) \/ AfterLoad(e))
          => executes' = executes /\ Len(widgets') = Len(widgets)]_vars

\* one load was rejected and its run has returned without a provider call;
\* the run after it awaited a load that resolved and has called the provider
C32_Witness ==
  /\ ~skip /\ mounted
  /\ Len(calls) = 2 /\ CallRejected(1) /\ CallResolved(2)
  /\ executes + Len(widgets) = 1
  /\ Len(InProgress(effects)) <= 1


\* Turnstile calls the error-callback of widget w in this step
ErrorCallback(w) == widgets[w].state \in {"idle", "executing"} /\ TurnstileFails(w, "error")

\* widget w belongs to the mounted instance, is live and is the one whose id
\* the instance stores
StoredWidget(w) ==
  mounted /\ widgets[w].inst = mounts /\ widgets[w].live /\ WidgetId(mounts) = w

\* reset() has called turnstile.reset on widget w after its error-callback
ResetAfterError(w) ==
  \E r \in 1..Len(handleResets) :
    handleResets[r].resetArgs = <<w>> /\ handleResets[r].resetOf = "error"

\* C33 (as claimed): when no turnstile method throws, the error-callback of
\* the stored widget of a mounted instance leaves the instance not
\* initialized and invokes no onVerify; a reset() made while that widget is
\* stored calls turnstile.reset with its id, and turnstile.execute too in
\* invisible mode; and a success of the widget after such a reset() is
\* reported through onVerify.
C33_RetryAfterErrorCallback ==
  /\ [][\A w \in 1..Len(widgets) :
          (throwing = "none" /\ StoredWidget(w) /\ ErrorCallback(w))
          => ~isInitialized' /\ verified' = verified]_vars
  /\ [][\A w \in 1..Len(widgets) :
          (throwing = "none" /\ StoredWidget(w) /\ widgets[w].state = "error"
           /\ HandleResetStep)
          => /\ NewReset.resetArgs = <<w>>
             /\ NewReset.pc = IF mode = "invisible" THEN "delay" ELSE "done"]_vars
  /\ [][\A w \in 1..Len(widgets) :
          (throwing = "none" /\ StoredWidget(w) /\ ResetAfterError(w)
           /\ TurnstileSuccess(w))
          => /\ Len(verified') = Len(verified) + 1
             /\ verified'[Len(verified')].token = ProviderToken(issued')]_vars


\* a step of the component: something of its state changes
ComponentStep == compVars' # compVars

\* C34: a step of the component that is not a call of load() leaves the
\* loader's loaded flag, loading flag and pending promise, and the loads
\* themselves, unchanged; and the loader's reset is never called.
C34_LoaderFrame ==
  /\ [][(ComponentStep /\ ~LoadStep)
          => /\ scriptLoaded' = scriptLoaded
             /\ scriptLoading' = scriptLoading
             /\ loadPromise' = loadPromise
             /\ loads' = loads]_vars
  /\ [][resets' = resets]_vars

\* reset() was called and the component unmounted while the load it had
\* started was in progress: the loader still holds that load
C34_Witness ==
  /\ ~skip /\ ~mounted /\ mounts = 1
  /\ Len(handleResets) = 1
  /\ calls = <<1>>
  /\ scriptLoading /\ loadPromise = 1
  /\ loads[1].promise = "pending" /\ loads[1].script = "fetching"


\* id is the id of a widget the instance inst rendered and that is not removed
LiveWidgetOf(id, inst) ==
  IF id \in 1..Len(widgets) THEN widgets[id].live /\ widgets[id].inst = inst ELSE FALSE

\* C35 (as claimed): every turnstile.execute, turnstile.reset and
\* turnstile.remove call passes the id of a live widget of the calling
\* instance: the automatic execute of initCaptcha, the reset and the delayed
\* execute of reset(), and the remove of the cleanup.
C35_CallsPassLiveWidget ==
  /\ [][\A e \in 1..Len(effects) :
          ExecuteWidget(e)
          => LiveWidgetOf(WidgetId(effects[e].inst), effects[e].inst)]_vars
  /\ [][\A r \in 1..Len(handleResets) :
          ResetExecuteWidget(r)
          => LiveWidgetOf(WidgetId(handleResets[r].inst), handleResets[r].inst)]_vars
  /\ [][HandleResetStep
          => \A i \in 1..Len(NewReset.resetArgs) :
               LiveWidgetOf(NewReset.resetArgs[i], mounts)]_vars
  /\ [][\A w \in 1..Len(widgets) :
          (widgets[w].live /\ ~widgets'[w].live)
          => mounted /\ WidgetId(mounts) = w /\ widgets[w].inst = mounts]_vars


\* an event of the load i fires in this step: the load or error event of
\* its script element, a tick of its poll, or its timeout
LateEvent(i) ==
  ScriptOnload(i) \/ ScriptOnerror(i) \/ CheckReady(i) \/ LoadTimeout(i)

\* a load other than i is in progress and the loader holds its promise
NewerLoadInProgress(i) ==
  /\ scriptLoading
  /\ loadPromise \in 1..Len(loads) /\ loadPromise # i
  /\ Fetching(loadPromise)

\* C36 (as claimed): while a load started after a reset is in progress, an
\* event of a load the reset discarded leaves the loading flag true and the
\* loader's promise that of the load in progress.
C36_DiscardedLoadIsInert ==
  [][\A i \in 1..Len(loads) :
       (loads[i].orphaned /\ NewerLoadInProgress(i) /\ LateEvent(i))
       => /\ scriptLoading'
          /\ loadPromise' = loadPromise]_vars


\* turnstile.remove removes the widget w in this step
Removed(w) == widgets[w].live /\ ~widgets'[w].live

\* C37 (as claimed): a widget is removed only by the unmount of its
\* component or when the parent passes new props; otherwise, and in
\* particular in the step of its success callback, it stays live and its id
\* stays stored.
C37_RemovedOnlyOnUnmount ==
  [][\A w \in 1..Len(widgets) :
       (StoredWidget(w) /\ ~UnmountStep /\ ~ParentRerenderStep)
       => /\ ~Removed(w)
          /\ widgetIdRef'[mounts] = w]_vars

====
